---- MODULE Spec2Model ----
(***************************************************************************)
(* A model of the QR-code video codec pipeline of BachelorProjectKU:       *)
(* the length-prefixed configuration header (src/base.py), the chunking    *)
(* encoder (src/qr_encoding.py), the frame decoder (src/qr_decoding.py),   *)
(* the order-preserving process pool (src/performance.py), the video       *)
(* handler (src/video_processing.py) and the orchestrator                  *)
(* VideoEncodingPipeline.encode / decode / run (src/base.py).              *)
(*                                                                         *)
(* Conventions.  A byte string is a sequence over 0..255.  Optional[int]   *)
(* is a sequence of length at most one: <<>> is None and <<v>> is v.  A    *)
(* call that may raise returns a record [exc, val]: exc is "None" when the *)
(* call returned val, and otherwise the name of the exception class.       *)
(***************************************************************************)
EXTENDS Integers, Sequences, FiniteSets, TLC

VARIABLES
    hPc,        \* header codec: "config", "wire" or "parsed"
    hConfig,    \* header codec: the configuration given to serialize_with_length_prefix
    hData,      \* header codec: the bytes on the wire
    hIntact,    \* header codec: whether hData is still what serialize returned
    hResult     \* header codec: what deserialize_with_length_prefix returned

VARIABLES
    pActive,    \* process pool: whether a ProcessPoolExecutor is open
    pTasks,     \* process pool: the tasks submitted by executor.map, in input order
    pCollect,   \* process pool: how many of them the result iterator yields
    pStatus,    \* process pool: per task "queued", "running", "done", "collected", "cancelled"
    pWorkers,   \* process pool: the number of worker processes
    pOut,       \* process pool: the results emitted so far, in emission order
    pExc        \* process pool: the exception the result iterator raised, or "None"

VARIABLES
    xPc,        \* pool call: "call", "pool" or "returned"
    xArgs,      \* pool call: the arguments of execute_parallel_tasks / _iter_tasks
    xResult     \* pool call: what the call returned or raised

VARIABLES
    pc,             \* pipeline: where VideoEncodingPipeline.run stands
    payload,        \* pipeline: run's data
    run_configuration,      \* pipeline: run's configuration
    pipeline_serializer,    \* pipeline: the pipeline's serializer
    mock,           \* pipeline: run's mock flag
    header_frames,  \* pipeline: encode's header_frames
    frames,         \* pipeline: the frame stream encode returned / decode reads
    file,           \* pipeline: the frames in the container at file_path, None if absent
    stage,          \* pipeline: what the encoder or video handler call in progress returned
    parsed,         \* pipeline: the configuration decode recovered from the header
    result,         \* pipeline: the Result run returned, None before
    raised,         \* pipeline: the exception that left run, "None" if none
    runs,           \* pipeline: the number of runs started
    first,          \* pipeline: what the first run handed back, None before it ended
    caller,         \* pipeline: the configuration decode's caller supplies
    tamper,         \* pipeline: what was done to the stream before decode, "none" if nothing
    key_press       \* pipeline: whether a key press ended the read of the container early

hvars == <<hPc, hConfig, hData, hIntact, hResult>>
rvars == <<pc, payload, run_configuration, pipeline_serializer, mock, header_frames, frames, file,
           stage, parsed, result, raised, runs, first, caller, tamper, key_press>>
xvars == <<xPc, xArgs, xResult>>
pvars == <<pActive, pTasks, pCollect, pStatus, pWorkers, pOut, pExc>>
vars == <<hvars, xvars, pvars, rvars>>

(***************************************************************************)
(* Bounds of the model.                                                    *)
(***************************************************************************)
MaxWorkers == 2         \* max_workers ranges over None and 1..MaxWorkers
MaxAppend == 2          \* bytes that may follow a header on the wire
MaxPoolTasks == 4       \* SpecPool: the longest task list handed to the pool
LongPayload == 40       \* Spec: the length of the longest payload
MaxChunks == 4          \* SpecChunk: payloads of up to MaxChunks full symbols and one byte

None == <<>>
Some(v) == <<v>>
Ok(v) == [exc |-> "None", val |-> v]
Raise(e) == [exc |-> e, val |-> <<>>]

RECURSIVE Concat(_)
Concat(ss) == IF ss = <<>> THEN <<>> ELSE Head(ss) \o Concat(Tail(ss))

Min(a, b) == IF a <= b THEN a ELSE b

(***************************************************************************)
(* enums.py                                                                *)
(***************************************************************************)
QRErrorCorrectionLevel == {"L", "M", "Q", "H"}

LevelValue(level) ==
    CASE level = "L" -> 0 [] level = "M" -> 1 [] level = "Q" -> 2 [] level = "H" -> 3

LevelOfValue(v) ==
    CASE v = 0 -> "L" [] v = 1 -> "M" [] v = 2 -> "Q" [] v = 3 -> "H"

to_max_bytes(level) ==
    CASE level = "L" -> 2953
      [] level = "M" -> 2331
      [] level = "Q" -> 1663
      [] level = "H" -> 1273

(***************************************************************************)
(* EncodingConfiguration / QREncodingConfiguration: the fields the         *)
(* pipeline reads.  border, box_size, qr_codes_per_frame and the library   *)
(* choices keep their defaults and are left out.                           *)
(***************************************************************************)
Configuration(mp, fps, show, verbose, chunk, workers, level) ==
    [enable_multiprocessing |-> mp, frames_per_second |-> fps,
     show_decoding_window |-> show, verbose |-> verbose,
     chunk_size |-> chunk, max_workers |-> workers, error_correction |-> level]

(***************************************************************************)
(* pickle.dumps / pickle.loads of a configuration, as a pickle opcode      *)
(* stream: PROTO 4, one value per dataclass field in declaration order,    *)
(* STOP.  NEWTRUE 0x88, NEWFALSE 0x89, NONE 'N', BININT1 'K' + 1 byte,     *)
(* BININT2 'M' + 2 bytes little-endian, BININT 'J' + 4 bytes little-endian *)
(* two's complement.  The class reference and the field names, which are   *)
(* the same bytes for every configuration, are left out.                   *)
(***************************************************************************)
PickleBool(b) == IF b THEN <<136>> ELSE <<137>>

\* A negative v is written in two's complement: v + 2^31 with the top bit set.
PickleInt(v) ==
    IF v >= 0 /\ v < 256 THEN <<75, v>>
    ELSE IF v >= 0 /\ v < 65536 THEN <<77, v % 256, v \div 256>>
    ELSE LET w == IF v < 0 THEN (v + 2147483647) + 1 ELSE v
             top == IF v < 0 THEN 128 ELSE 0
         IN  <<74, w % 256, (w \div 256) % 256, (w \div 65536) % 256,
               (w \div 16777216) + top>>

PickleOpt(o) == IF o = None THEN <<78>> ELSE PickleInt(o[1])

to_bytes(c) ==
    <<128, 4>>
    \o PickleBool(c.enable_multiprocessing)
    \o PickleInt(c.frames_per_second)
    \o PickleBool(c.show_decoding_window)
    \o PickleBool(c.verbose)
    \o PickleOpt(c.chunk_size)
    \o PickleOpt(c.max_workers)
    \o PickleInt(LevelValue(c.error_correction))
    \o <<46>>

\* One pickled value read at position i of s: [ok, t, b, n, next].
UnpickleItem(s, i) ==
    LET bad == [ok |-> FALSE, t |-> "", b |-> FALSE, n |-> 0, next |-> i]
    IN  IF i > Len(s) THEN bad
        ELSE CASE s[i] = 136 -> [ok |-> TRUE, t |-> "bool", b |-> TRUE, n |-> 0, next |-> i + 1]
               [] s[i] = 137 -> [ok |-> TRUE, t |-> "bool", b |-> FALSE, n |-> 0, next |-> i + 1]
               [] s[i] = 78 -> [ok |-> TRUE, t |-> "none", b |-> FALSE, n |-> 0, next |-> i + 1]
               [] s[i] = 75 ->
                    IF i + 1 > Len(s) THEN bad
                    ELSE [ok |-> TRUE, t |-> "int", b |-> FALSE, n |-> s[i + 1], next |-> i + 2]
               [] s[i] = 77 ->
                    IF i + 2 > Len(s) THEN bad
                    ELSE [ok |-> TRUE, t |-> "int", b |-> FALSE,
                          n |-> s[i + 1] + 256 * s[i + 2], next |-> i + 3]
               [] s[i] = 74 ->
                    IF i + 4 > Len(s) THEN bad
                    ELSE LET w == s[i + 1] + 256 * s[i + 2] + 65536 * s[i + 3]
                                  + 16777216 * (s[i + 4] % 128)
                         IN  [ok |-> TRUE, t |-> "int", b |-> FALSE,
                              n |-> IF s[i + 4] >= 128 THEN (w - 2147483647) - 1 ELSE w,
                              next |-> i + 5]
               [] OTHER -> bad

ItemOpt(it) == IF it.t = "none" THEN None ELSE Some(it.n)

\* pickle.loads of bytes that should hold a configuration.
loads(data) ==
    IF Len(data) < 2 \/ data[1] # 128 \/ data[2] # 4 THEN Raise("UnpicklingError")
    ELSE LET f1 == UnpickleItem(data, 3)
             f2 == UnpickleItem(data, f1.next)
             f3 == UnpickleItem(data, f2.next)
             f4 == UnpickleItem(data, f3.next)
             f5 == UnpickleItem(data, f4.next)
             f6 == UnpickleItem(data, f5.next)
             f7 == UnpickleItem(data, f6.next)
         IN  IF /\ f1.ok /\ f1.t = "bool"
                /\ f2.ok /\ f2.t = "int"
                /\ f3.ok /\ f3.t = "bool"
                /\ f4.ok /\ f4.t = "bool"
                /\ f5.ok /\ f5.t \in {"none", "int"}
                /\ f6.ok /\ f6.t \in {"none", "int"}
                /\ f7.ok /\ f7.t = "int" /\ f7.n \in 0..3
                /\ f7.next <= Len(data) /\ data[f7.next] = 46
             THEN Ok(Configuration(f1.b, f2.n, f3.b, f4.b, ItemOpt(f5), ItemOpt(f6),
                                   LevelOfValue(f7.n)))
             ELSE Raise("UnpicklingError")

\* EncodingConfiguration(): every field at its default (error_correction M).
DefaultConfiguration == Configuration(TRUE, 24, FALSE, FALSE, None, None, "M")

\* A faulty variant: bytes that do not unpickle give the default configuration.
from_bytes_lenient(data) ==
    IF loads(data).exc = "None" THEN loads(data) ELSE Ok(DefaultConfiguration)

from_bytes(data) == loads(data)

(***************************************************************************)
(* The length-prefixed header codec of EncodingConfiguration.              *)
(***************************************************************************)
CONFIGURATION_HEADER_LENGTH_BYTES == 4

\* int.to_bytes(n, 4, "big")
IntToBytesBig(n) ==
    <<(n \div 16777216) % 256, (n \div 65536) % 256, (n \div 256) % 256, n % 256>>

\* int.from_bytes(b, "big") of a 4-byte string.  The model's integers are 32 bits
\* wide: a value of 2^30 or more, longer than any byte string of the model, is
\* read as 2^30.
IntFromBytesBig(b) ==
    IF b[1] >= 64 THEN 1073741824
    ELSE 16777216 * b[1] + 65536 * b[2] + 256 * b[3] + b[4]

\* A faulty variant: the length written with the wrong byte order.
serialize_with_length_prefix_little(config) ==
    LET config_bytes == to_bytes(config)
        n == Len(config_bytes)
    IN  <<n % 256, (n \div 256) % 256, (n \div 65536) % 256, (n \div 16777216) % 256>>
        \o config_bytes

serialize_with_length_prefix(config) ==
    LET config_bytes == to_bytes(config)
        length_bytes == IntToBytesBig(Len(config_bytes))
    IN  length_bytes \o config_bytes

\* A faulty variant: the blob sliced one byte early.
deserialize_with_length_prefix_offset(data) ==
    IF Len(data) < CONFIGURATION_HEADER_LENGTH_BYTES
    THEN [exc |-> "ValueError", val |-> <<>>, parsed |-> FALSE]
    ELSE LET config_length ==
                 IntFromBytesBig(SubSeq(data, 1, CONFIGURATION_HEADER_LENGTH_BYTES))
         IN  IF Len(data) < CONFIGURATION_HEADER_LENGTH_BYTES + config_length
             THEN [exc |-> "ValueError", val |-> <<>>, parsed |-> FALSE]
             ELSE LET config_bytes ==
                          SubSeq(data, CONFIGURATION_HEADER_LENGTH_BYTES,
                                 CONFIGURATION_HEADER_LENGTH_BYTES + config_length - 1)
                      r == from_bytes(config_bytes)
                  IN  [exc |-> r.exc, val |-> r.val, parsed |-> TRUE]

\* A faulty variant: the second length check missing; the slice stops at the end of the
\* data, as a Python slice does.
deserialize_with_length_prefix_unchecked(data) ==
    IF Len(data) < CONFIGURATION_HEADER_LENGTH_BYTES
    THEN [exc |-> "ValueError", val |-> <<>>, parsed |-> FALSE]
    ELSE LET config_length ==
                 IntFromBytesBig(SubSeq(data, 1, CONFIGURATION_HEADER_LENGTH_BYTES))
             config_bytes ==
                 SubSeq(data, CONFIGURATION_HEADER_LENGTH_BYTES + 1,
                        Min(Len(data), CONFIGURATION_HEADER_LENGTH_BYTES + config_length))
             r == from_bytes(config_bytes)
         IN  [exc |-> r.exc, val |-> r.val, parsed |-> TRUE]

\* The result carries, beside [exc, val], whether from_bytes was called.
deserialize_with_length_prefix(data) ==
    IF Len(data) < CONFIGURATION_HEADER_LENGTH_BYTES
    THEN [exc |-> "ValueError", val |-> <<>>, parsed |-> FALSE]
    ELSE LET config_length ==
                 IntFromBytesBig(SubSeq(data, 1, CONFIGURATION_HEADER_LENGTH_BYTES))
         IN  IF Len(data) < CONFIGURATION_HEADER_LENGTH_BYTES + config_length
             THEN [exc |-> "ValueError", val |-> <<>>, parsed |-> FALSE]
             ELSE LET config_bytes ==
                          SubSeq(data, CONFIGURATION_HEADER_LENGTH_BYTES + 1,
                                 CONFIGURATION_HEADER_LENGTH_BYTES + config_length)
                      r == from_bytes(config_bytes)
                  IN  [exc |-> r.exc, val |-> r.val, parsed |-> TRUE]

(***************************************************************************)
(* Serializers (base.py): base64.b64encode / base64.b64decode and the      *)
(* identity.  b64decode runs with validate=False: characters outside the   *)
(* alphabet are discarded, and a data length that is not a multiple of     *)
(* four without the padding to complete it raises binascii.Error, a        *)
(* ValueError.  Padding characters are counted wherever they stand.        *)
(***************************************************************************)
B64Char(v) ==
    IF v < 26 THEN 65 + v
    ELSE IF v < 52 THEN 97 + (v - 26)
    ELSE IF v < 62 THEN 48 + (v - 52)
    ELSE IF v = 62 THEN 43 ELSE 47

IsB64Char(c) ==
    \/ (c >= 65 /\ c <= 90) \/ (c >= 97 /\ c <= 122) \/ (c >= 48 /\ c <= 57)
    \/ c = 43 \/ c = 47

B64Val(c) ==
    IF c >= 65 /\ c <= 90 THEN c - 65
    ELSE IF c >= 97 /\ c <= 122 THEN c - 97 + 26
    ELSE IF c >= 48 /\ c <= 57 THEN c - 48 + 52
    ELSE IF c = 43 THEN 62 ELSE 63

IsPad(c) == c = 61

b64encode(s) ==
    LET n == Len(s)
        at(j) == IF j <= n THEN s[j] ELSE 0
        triple(g) == 65536 * at(3 * g + 1) + 256 * at(3 * g + 2) + at(3 * g + 3)
        sextet(g, k) ==
            CASE k = 0 -> triple(g) \div 262144
              [] k = 1 -> (triple(g) \div 4096) % 64
              [] k = 2 -> (triple(g) \div 64) % 64
              [] k = 3 -> triple(g) % 64
        char(g, k) ==
            IF (k = 2 /\ 3 * g + 2 > n) \/ (k = 3 /\ 3 * g + 3 > n)
            THEN 61 ELSE B64Char(sextet(g, k))
    IN  [i \in 1..(4 * ((n + 2) \div 3)) |-> char((i - 1) \div 4, (i - 1) % 4)]

b64decode(s) ==
    LET d == SelectSeq(s, IsB64Char)
        pads == Len(SelectSeq(s, IsPad))
        m == Len(d)
        at(j) == IF j <= m THEN B64Val(d[j]) ELSE 0
        quad(g) == 262144 * at(4 * g + 1) + 4096 * at(4 * g + 2)
                   + 64 * at(4 * g + 3) + at(4 * g + 4)
        byte(g, k) ==
            CASE k = 0 -> quad(g) \div 65536
              [] k = 1 -> (quad(g) \div 256) % 256
              [] k = 2 -> quad(g) % 256
        n == 3 * (m \div 4) + (CASE m % 4 = 2 -> 1 [] m % 4 = 3 -> 2 [] OTHER -> 0)
    IN  IF m % 4 = 1 \/ (m % 4 = 2 /\ pads < 2) \/ (m % 4 = 3 /\ pads < 1)
        THEN Raise("ValueError")
        ELSE Ok([j \in 1..n |-> byte((j - 1) \div 3, (j - 1) % 3)])

Serializers == {"Base64Serializer", "IdentitySerializer"}

serialize(serializer, b) ==
    IF serializer = "Base64Serializer" THEN b64encode(b) ELSE b

deserialize(serializer, b) ==
    IF serializer = "Base64Serializer" THEN b64decode(b) ELSE Ok(b)

(***************************************************************************)
(* Frames.  A frame is a raster: the QR symbols drawn in it, in the order  *)
(* the detector reports them, and its shape (height, width).  The symbol   *)
(* codec is the external collaborator (segno / qrcode to draw, pyzbar to   *)
(* detect): a drawn symbol is detected with the bytes it was drawn from,   *)
(* and its side grows with the number of bytes.                            *)
(***************************************************************************)
SymbolSide(n) == 21 + 4 * (n \div 16)

Render(data) == [symbols |-> <<data>>, shape |-> <<SymbolSide(Len(data)), SymbolSide(Len(data))>>]

\* A raster in which the detector finds no symbol.
BlankFrame == [symbols |-> <<>>, shape |-> <<21, 21>>]

\* qr_encoding._generate_qr_image
generate_qr_image(data, configuration) ==
    LET max_bytes == to_max_bytes(configuration.error_correction)
    IN  IF Len(data) > max_bytes THEN Raise("ValueError") ELSE Ok(Render(data))

\* A faulty variant: a frame in which nothing is detected contributes no bytes.
decode_qr_image_skipping(image, configuration) ==
    IF image.symbols = <<>> THEN Ok(<<>>) ELSE Ok(Concat(image.symbols))

\* qr_decoding._decode_qr_image
decode_qr_image(image, configuration) ==
    IF image.symbols = <<>> THEN Raise("ValueError") ELSE Ok(Concat(image.symbols))

\* video_processing.resize_frame: frame.shape[:2] is (height, width), size is
\* (width, height); cv2.resize keeps the symbols detectable.
\* An int has no attribute shape.
resize_frame(frame, size) ==
    IF "shape" \notin DOMAIN frame THEN Raise("AttributeError")
    ELSE IF frame.shape # size
    THEN Ok([frame EXCEPT !.shape = <<size[2], size[1]>>])
    ELSE Ok(frame)

(***************************************************************************)
(* Tasks: the functools.partial objects handed to the pool or run by the   *)
(* sequential loops.                                                       *)
(***************************************************************************)
GenerateTask(data, configuration) == [fn |-> "generate", arg |-> data, cfg |-> configuration]
DecodeTask(frame, configuration) == [fn |-> "decode", arg |-> frame, cfg |-> configuration]
ResizeTask(frame, size) == [fn |-> "resize", arg |-> frame, cfg |-> size]

\* performance._execute_task
execute_task(task) ==
    CASE task.fn = "generate" -> generate_qr_image(task.arg, task.cfg)
      [] task.fn = "decode" -> decode_qr_image(task.arg, task.cfg)
      [] task.fn = "resize" -> resize_frame(task.arg, task.cfg)

\* The sequential loops of generate_qr_images, decode_frames_to_data and
\* create_video_from_frames: the tasks run in order, the first exception ends
\* the loop.
SequentialMap(tasks) ==
    LET failing == {i \in 1..Len(tasks) : execute_task(tasks[i]).exc # "None"}
    IN  IF failing = {}
        THEN Ok([i \in 1..Len(tasks) |-> execute_task(tasks[i]).val])
        ELSE Raise(execute_task(tasks[CHOOSE i \in failing : \A j \in failing : i <= j]).exc)

(***************************************************************************)
(* performance.execute_parallel_tasks / execute_parallel_iter_tasks:       *)
(* a ProcessPoolExecutor and executor.map.  map submits every task when it *)
(* is called; the workers take queued tasks first-in first-out and finish  *)
(* in any order; the result iterator yields the futures' results in input  *)
(* order and, at the first one that raised, cancels what is still queued   *)
(* and raises.  Leaving the with block waits for the running tasks.        *)
(***************************************************************************)
Count(status, what) == Cardinality({i \in 1..Len(status) : status[i] = what})

\* A faulty variant: results collected as they complete (as_completed), lowest index first.
NextIndexCompleted(status) ==
    LET done == {i \in 1..Len(status) : status[i] = "done"}
    IN  IF done = {} THEN Len(status) + 1 ELSE CHOOSE i \in done : \A j \in done : i <= j

\* The index of the future whose result the iterator of executor.map yields next.
NextIndex(status) == Count(status, "collected") + 1

\* max_workers=None lets the executor size itself from the machine.
PoolSize(max_workers) == IF max_workers = None THEN MaxWorkers ELSE max_workers[1]

\* execute_parallel_tasks(tasks, ...): the pool is opened and executor.map
\* submits every task.
PoolOpen(tasks, extra, max_workers) ==
    /\ pActive' = TRUE
    /\ pTasks' = tasks \o extra
    /\ pCollect' = Len(tasks)
    /\ pStatus' = [i \in 1..(Len(tasks) + Len(extra)) |-> "queued"]
    /\ pWorkers' = PoolSize(max_workers)
    /\ pOut' = <<>>
    /\ pExc' = "None"

PoolIdle ==
    /\ pActive = FALSE
    /\ pTasks = <<>>
    /\ pCollect = 0
    /\ pStatus = <<>>
    /\ pWorkers = 0
    /\ pOut = <<>>
    /\ pExc = "None"

\* A free worker takes the oldest queued task.
PoolStart ==
    /\ pActive
    /\ Count(pStatus, "running") < pWorkers
    /\ \E i \in 1..Len(pStatus) :
        /\ pStatus[i] = "queued"
        /\ \A j \in 1..(i - 1) : pStatus[j] # "queued"
        /\ pStatus' = [pStatus EXCEPT ![i] = "running"]
    /\ UNCHANGED <<pActive, pTasks, pCollect, pWorkers, pOut, pExc>>

\* A worker finishes the task it runs.
PoolFinish ==
    /\ pActive
    /\ \E i \in 1..Len(pStatus) :
        /\ pStatus[i] = "running"
        /\ pStatus' = [pStatus EXCEPT ![i] = "done"]
    /\ UNCHANGED <<pActive, pTasks, pCollect, pWorkers, pOut, pExc>>

\* The result iterator yields the next result, or raises its exception and
\* cancels the futures not yet started.
PoolCollect ==
    /\ pActive
    /\ pExc = "None"
    /\ Len(pOut) < pCollect
    /\ LET i == NextIndex(pStatus)
           r == execute_task(pTasks[i])
       IN  /\ i <= Len(pStatus)
           /\ pStatus[i] = "done"
           /\ IF r.exc = "None"
              THEN /\ pOut' = Append(pOut, r.val)
                   /\ pExc' = pExc
                   /\ pStatus' = [pStatus EXCEPT ![i] = "collected"]
              ELSE /\ pOut' = pOut
                   /\ pExc' = r.exc
                   /\ pStatus' = [j \in 1..Len(pStatus) |->
                                     IF j = i THEN "collected"
                                     ELSE IF pStatus[j] = "queued" /\ j <= pCollect
                                          THEN "cancelled" ELSE pStatus[j]]
    /\ UNCHANGED <<pActive, pTasks, pCollect, pWorkers>>

\* A faulty variant: the pool is left without waiting for its workers, shutdown(wait=False).
PoolJoinedNoWait ==
    /\ pActive
    /\ (Len(pOut) = pCollect \/ pExc # "None")

\* The with block has been left: every result was collected or one raised, and
\* shutdown(wait=True) has waited for the tasks that were started or still queued.
PoolJoined ==
    /\ pActive
    /\ (Len(pOut) = pCollect \/ pExc # "None")
    /\ Count(pStatus, "running") = 0
    /\ Count(pStatus, "queued") = 0

\* What execute_parallel_tasks returns or raises.
PoolResult == IF pExc = "None" THEN Ok(pOut) ELSE Raise(pExc)

PoolClose ==
    /\ pActive' = FALSE
    /\ pTasks' = <<>>
    /\ pCollect' = 0
    /\ pStatus' = <<>>
    /\ pWorkers' = 0
    /\ pOut' = <<>>
    /\ pExc' = "None"

(***************************************************************************)
(* qr_encoding.generate_qr_images: the chunking of the serialized data.    *)
(* Both branches slice data[i : i + max_bytes] for i in                    *)
(* range(0, len(data), max_bytes).                                         *)
(***************************************************************************)

\* A faulty variant: the configured chunk size used without the capacity.
EffectiveMaxBytesUncapped(configuration) ==
    IF configuration.chunk_size # None
    THEN configuration.chunk_size[1]
    ELSE to_max_bytes(configuration.error_correction)

EffectiveMaxBytes(configuration) ==
    LET max_bytes == to_max_bytes(configuration.error_correction)
    IN  IF configuration.chunk_size # None
        THEN Min(configuration.chunk_size[1], max_bytes)
        ELSE max_bytes

\* A faulty variant: the stop of the range is included, range(0, len(data) + 1, max_bytes).
RangeLenInclusive(stop, step) == IF step > 0 THEN stop \div step + 1 ELSE 0

\* len(range(0, stop, step)) for stop >= 0 and step # 0.
RangeLen(stop, step) == IF step > 0 THEN (stop + step - 1) \div step ELSE 0

\* A faulty variant: each slice runs one byte into the next.
SliceOverlapping(data, i, j) == SubSeq(data, i + 1, Min(j + 1, Len(data)))

\* data[i : j] for 0 <= i <= j.
Slice(data, i, j) == SubSeq(data, i + 1, Min(j, Len(data)))

\* The tasks of generate_qr_images, one per chunk; range() raises ValueError
\* for a step of zero.
GenerateTasks(data, config) ==
    LET max_bytes == EffectiveMaxBytes(config)
    IN  IF max_bytes = 0 THEN Raise("ValueError")
        ELSE Ok([k \in 1..RangeLen(Len(data), max_bytes) |->
                    GenerateTask(Slice(data, (k - 1) * max_bytes, k * max_bytes), config)])

\* The tasks of decode_frames_to_data, one per frame; no frames is a ValueError.
DecodeTasks(frame_list, config) ==
    IF Len(frame_list) = 0 THEN Raise("ValueError")
    ELSE Ok([i \in 1..Len(frame_list) |-> DecodeTask(frame_list[i], config)])

\* The tasks of create_video_from_frames: every frame is resized to the
\* (width, height) of the first.
ResizeTasks(frame_list) ==
    LET height == frame_list[1].shape[1]
        width == frame_list[1].shape[2]
    IN  [i \in 1..Len(frame_list) |-> ResizeTask(frame_list[i], <<width, height>>)]

\* The loop variable of for frame in tqdm(range(0, len(frames))): an int.
LoopIndex(i) == [index |-> i]

\* The calls of create_video_from_frames: its parallel branch resizes
\* frames[i], its sequential loop hands resize_frame the loop variable.
WriteTasks(frame_list, config) ==
    IF config.enable_multiprocessing
    THEN ResizeTasks(frame_list)
    ELSE LET height == frame_list[1].shape[1]
             width == frame_list[1].shape[2]
         IN  [i \in 1..Len(frame_list) |-> ResizeTask(LoopIndex(i - 1), <<width, height>>)]

\* Whether a call takes its parallel branch: decode_frames_to_data is handed
\* None for the header frame.
Parallel(config) == config # None /\ config.enable_multiprocessing

\* A faulty variant: the count of the frames is never known.
try_get_iter_count_unknown(iter) == [success |-> FALSE, count |-> 0, iter |-> iter]

\* utils.try_get_iter_count of a list.
try_get_iter_count(iter) == [success |-> TRUE, count |-> Len(iter), iter |-> iter]

\* A faulty variant: every output is accepted.
validate_accepts_all(input, output) == TRUE

\* base.validate_equals
validate_equals(input, output) == input = output

\* utils.generate_random_bytes(n, seed): n bytes that differ from one position
\* to the next.
generate_random_bytes(n, seed) == [i \in 1..n |-> (seed + 89 * i) % 256]

(***************************************************************************)
(* The configurations of the model.                                        *)
(***************************************************************************)
FramesPerSecond == {24, 30}

\* chunk_size: unset, smaller than a header, the test suite's 512, and above
\* every capacity of to_max_bytes.
ChunkSizes == {None, Some(1), Some(30), Some(512), Some(3000)}

WorkerCounts == {None} \cup {Some(w) : w \in 1..MaxWorkers}

Configurations ==
    {Configuration(mp, fps, show, verbose, chunk, workers, level) :
        mp \in BOOLEAN, fps \in FramesPerSecond, show \in BOOLEAN, verbose \in BOOLEAN,
        chunk \in ChunkSizes, workers \in WorkerCounts, level \in QRErrorCorrectionLevel}

(***************************************************************************)
(* SpecHeader: the header codec on its own.  A configuration is            *)
(* serialized, the bytes on the wire may be cut short or followed by other *)
(* bytes, and deserialize_with_length_prefix is applied to what arrives.   *)
(***************************************************************************)
AppendBytes == {0, 46, 255}

HIdle ==
    /\ hPc = "idle"
    /\ hConfig = <<>>
    /\ hData = <<>>
    /\ hIntact = TRUE
    /\ hResult = <<>>

XIdle ==
    /\ xPc = "idle"
    /\ xArgs = <<>>
    /\ xResult = <<>>

NoResult == [value |-> None, exception |-> "None"]

\* Result.is_valid
is_valid(r) == r.exception = "None"

RIdle ==
    /\ pc = "idle"
    /\ payload = <<>>
    /\ run_configuration = <<>>
    /\ pipeline_serializer = "IdentitySerializer"
    /\ mock = TRUE
    /\ header_frames = <<>>
    /\ frames = <<>>
    /\ file = None
    /\ stage = Ok(<<>>)
    /\ parsed = None
    /\ result = NoResult
    /\ raised = "None"
    /\ runs = 0
    /\ first = None
    /\ caller = <<>>
    /\ tamper = "none"
    /\ key_press = FALSE

HInit ==
    /\ XIdle
    /\ PoolIdle
    /\ RIdle
    /\ hPc = "config"
    /\ hConfig \in Configurations
    /\ hData = <<>>
    /\ hIntact = TRUE
    /\ hResult = [exc |-> "None", val |-> <<>>, parsed |-> FALSE]

HSerialize ==
    /\ hPc = "config"
    /\ hData' = serialize_with_length_prefix(hConfig)
    /\ hPc' = "wire"
    /\ UNCHANGED <<hConfig, hIntact, hResult, xvars, pvars, rvars>>

HTruncate ==
    /\ hPc = "wire"
    /\ hIntact
    /\ \E k \in 0..(Len(hData) - 1) : hData' = SubSeq(hData, 1, k)
    /\ hIntact' = FALSE
    /\ UNCHANGED <<hPc, hConfig, hResult, xvars, pvars, rvars>>

HAppend ==
    /\ hPc = "wire"
    /\ Len(hData) < Len(serialize_with_length_prefix(hConfig)) + MaxAppend
    /\ Len(hData) >= Len(serialize_with_length_prefix(hConfig))
    /\ \E b \in AppendBytes : hData' = Append(hData, b)
    /\ hIntact' = FALSE
    /\ UNCHANGED <<hPc, hConfig, hResult, xvars, pvars, rvars>>

HDeserialize ==
    /\ hPc = "wire"
    /\ hResult' = deserialize_with_length_prefix(hData)
    /\ hPc' = "parsed"
    /\ UNCHANGED <<hConfig, hData, hIntact, xvars, pvars, rvars>>

HNext == HSerialize \/ HTruncate \/ HAppend \/ HDeserialize

SpecHeader == HInit /\ [][HNext]_vars

(***************************************************************************)
(* SpecPool: one call of execute_parallel_tasks (variant "list") or of     *)
(* execute_parallel_iter_tasks (variant "iter") on a list of tasks, under  *)
(* every scheduling of the workers.  With verbose set the iter variant     *)
(* calls executor.map a second time on the same tasks: a list is submitted *)
(* again, a generator is exhausted by then.                                *)
(***************************************************************************)
PoolFrames == {Render(<<65>>), Render(<<66, 67>>), BlankFrame}

RECURSIVE SeqsUpTo(_, _)
SeqsUpTo(S, n) ==
    IF n = 0 THEN {<<>>}
    ELSE LET shorter == SeqsUpTo(S, n - 1)
         IN  shorter \cup {Append(q, e) : q \in shorter, e \in S}

XInit ==
    /\ HIdle
    /\ PoolIdle
    /\ RIdle
    /\ xPc = "call"
    /\ \E fs \in SeqsUpTo(PoolFrames, MaxPoolTasks), variant \in {"list", "iter"},
          verbose \in BOOLEAN, reiterable \in BOOLEAN, max_workers \in WorkerCounts :
        xArgs = [tasks |-> [i \in 1..Len(fs) |-> DecodeTask(fs[i], None)],
                 variant |-> variant, verbose |-> verbose, reiterable |-> reiterable,
                 max_workers |-> max_workers]
    /\ xResult = <<>>

\* A faulty variant: every call maps its tasks a second time.
SecondMapAlways(args) == args.tasks

\* The second executor.map of execute_parallel_iter_tasks.
SecondMap(args) ==
    IF args.variant = "iter" /\ args.verbose /\ args.reiterable THEN args.tasks ELSE <<>>

XCall ==
    /\ xPc = "call"
    /\ PoolOpen(xArgs.tasks, SecondMap(xArgs), xArgs.max_workers)
    /\ xPc' = "pool"
    /\ UNCHANGED <<xArgs, xResult, hvars, rvars>>

XPoolStart == xPc = "pool" /\ PoolStart /\ UNCHANGED <<xvars, hvars, rvars>>

XPoolFinish == xPc = "pool" /\ PoolFinish /\ UNCHANGED <<xvars, hvars, rvars>>

XPoolCollect == xPc = "pool" /\ PoolCollect /\ UNCHANGED <<xvars, hvars, rvars>>

XReturn ==
    /\ xPc = "pool"
    /\ PoolJoined
    /\ xResult' = PoolResult
    /\ xPc' = "returned"
    /\ pActive' = FALSE
    /\ UNCHANGED <<xArgs, hvars, rvars, pTasks, pCollect, pStatus, pWorkers, pOut, pExc>>

XNext == XCall \/ XPoolStart \/ XPoolFinish \/ XPoolCollect \/ XReturn

SpecPool == XInit /\ [][XNext]_vars

(***************************************************************************)
(* Spec: VideoEncodingPipeline.run (base.py), with the encoder             *)
(* generate_qr_images / decode_frames_to_data and the video handler        *)
(* create_video_from_frames / create_frames_from_video.  Each encoder or   *)
(* video handler call either runs its sequential loop or opens the pool,   *)
(* whose workers then interleave.  When a run has ended, a second run of   *)
(* the same payload starts with enable_multiprocessing, mock or the        *)
(* display flags flipped.                                                  *)
(***************************************************************************)
HelloWorld == <<72, 101, 108, 108, 111, 32, 87, 111, 114, 108, 100>>

Payloads == {<<>>, <<255>>, <<0>>, HelloWorld, generate_random_bytes(LongPayload, 42)}

PipelineChunkSizes == {None, Some(8), Some(30), Some(3000)}

\* The default level and the one of least capacity.
PipelineLevels == {"M", "H"}

\* Every combination of the fields that decide chunking and scheduling, and
\* every combination of the two display flags on the default chunking.
PipelineConfigurations ==
    {Configuration(mp, 24, FALSE, FALSE, chunk, workers, level) :
        mp \in BOOLEAN, chunk \in PipelineChunkSizes, workers \in WorkerCounts,
        level \in PipelineLevels}
    \cup
    {Configuration(mp, 24, show, verbose, None, None, "M") :
        mp \in BOOLEAN, show \in BOOLEAN, verbose \in BOOLEAN}

Init ==
    /\ HIdle
    /\ XIdle
    /\ PoolIdle
    /\ pc = "run"
    /\ payload \in Payloads
    /\ run_configuration \in PipelineConfigurations
    /\ pipeline_serializer \in Serializers
    /\ mock \in BOOLEAN
    /\ header_frames = <<>>
    /\ frames = <<>>
    /\ file = None
    /\ stage = Ok(<<>>)
    /\ parsed = None
    /\ result = NoResult
    /\ raised = "None"
    /\ runs = 1
    /\ first = None
    /\ caller = run_configuration
    /\ tamper = "none"
    /\ key_press = FALSE

\* The arguments of the execute_parallel_tasks call of generate_qr_images,
\* decode_frames_to_data and create_video_from_frames: the tasks are a
\* generator expression, which can be iterated once.
StageArgs(tasks, config) ==
    [tasks |-> tasks, variant |-> "list", verbose |-> config.verbose, reiterable |-> FALSE,
     max_workers |-> config.max_workers]

\* A call of generate_qr_images, decode_frames_to_data or
\* create_video_from_frames on its tasks: the sequential loop, or the pool.
StartStage(tasks, config, pool_pc, done_pc) ==
    IF tasks.exc # "None"
    THEN /\ stage' = tasks
         /\ pc' = done_pc
         /\ UNCHANGED pvars
    ELSE IF Parallel(config)
    THEN /\ PoolOpen(tasks.val, SecondMap(StageArgs(tasks.val, config)), config.max_workers)
         /\ pc' = pool_pc
         /\ UNCHANGED stage
    ELSE /\ stage' = SequentialMap(tasks.val)
         /\ pc' = done_pc
         /\ UNCHANGED pvars

\* execute_parallel_tasks returns or raises.
JoinStage(pool_pc, done_pc) ==
    /\ pc = pool_pc
    /\ PoolJoined
    /\ stage' = PoolResult
    /\ PoolClose
    /\ pc' = done_pc

\* An exception leaves run.
RaiseOut(exception) ==
    /\ raised' = exception
    /\ pc' = "raised"
    /\ UNCHANGED result

\* A faulty variant: the Result is built without its exception.
ReturnWithoutException(value, exception) ==
    /\ result' = [value |-> value, exception |-> "None"]
    /\ pc' = "done"
    /\ UNCHANGED raised

\* run returns a Result.
Return(value, exception) ==
    /\ result' = [value |-> value, exception |-> exception]
    /\ pc' = "done"
    /\ UNCHANGED raised

\* run catches ValueError around decode, and nothing else.
DecodeFailed(exception) ==
    IF exception = "ValueError" THEN Return(None, exception) ELSE RaiseOut(exception)

\* video_processing.create_frames_from_video when no key is pressed: every
\* frame of the container, none when the capture does not open.
read(container) == IF container = None THEN <<>> ELSE container[1]

\* video_processing.create_frames_from_video: what it may return.  With
\* show_decoding_window, waitKey may report a q for any frame, and the frames
\* before that one are returned.
create_frames_from_video(container, configuration) ==
    IF configuration.show_decoding_window
    THEN {SubSeq(read(container), 1, n) : n \in 0..Len(read(container))}
    ELSE {read(container)}

\* encode, base.py 176-181: the header is serialized and handed to the encoder.
EncodeHeader ==
    /\ pc = "run"
    /\ LET header_with_length == serialize_with_length_prefix(run_configuration)
           header_serialized == serialize(pipeline_serializer, header_with_length)
       IN  StartStage(GenerateTasks(header_serialized, run_configuration),
                      run_configuration, "encode_header_pool", "encode_header")
    /\ UNCHANGED <<payload, run_configuration, pipeline_serializer, mock, header_frames,
                   frames, file, parsed, result, raised, runs, first, caller, tamper, key_press, hvars, xvars>>

EncodeHeaderJoin ==
    /\ JoinStage("encode_header_pool", "encode_header")
    /\ UNCHANGED <<payload, run_configuration, pipeline_serializer, mock, header_frames,
                   frames, file, parsed, result, raised, runs, first, caller, tamper, key_press, hvars, xvars>>

\* encode, base.py 183-191: the header must be one frame; the payload is
\* serialized and handed to the encoder.
EncodePayload ==
    /\ pc = "encode_header"
    /\ IF stage.exc # "None"
       THEN /\ RaiseOut(stage.exc)
            /\ UNCHANGED <<header_frames, stage, pvars>>
       ELSE LET counted == try_get_iter_count(stage.val)
            IN  IF counted.success /\ counted.count # 1
                THEN /\ RaiseOut("PipelineValidationException")
                     /\ UNCHANGED <<header_frames, stage, pvars>>
                ELSE /\ header_frames' = counted.iter
                     /\ StartStage(GenerateTasks(serialize(pipeline_serializer, payload),
                                                  run_configuration),
                                    run_configuration, "encode_payload_pool", "encode_payload")
                     /\ UNCHANGED <<result, raised>>
    /\ UNCHANGED <<payload, run_configuration, pipeline_serializer, mock,
                   frames, file, parsed, runs, first, caller, tamper, key_press, hvars, xvars>>

EncodePayloadJoin ==
    /\ JoinStage("encode_payload_pool", "encode_payload")
    /\ UNCHANGED <<payload, run_configuration, pipeline_serializer, mock, header_frames,
                   frames, file, parsed, result, raised, runs, first, caller, tamper, key_press, hvars, xvars>>

\* A faulty variant: the payload frames come before the header frames.
chain_payload_first(header, rest) == rest \o header

\* itertools.chain(header_frames, payload_frames)
chain(header, rest) == header \o rest

\* encode, base.py 193-198: the two streams are chained; with a file path the
\* chain is handed to video_handler.write, which resizes every frame.
EncodeWrite ==
    /\ pc = "encode_payload"
    /\ IF stage.exc # "None"
       THEN /\ RaiseOut(stage.exc)
            /\ UNCHANGED <<frames, stage, pvars>>
       ELSE LET total_frames == chain(header_frames, stage.val)
            IN  /\ frames' = total_frames
                /\ IF mock
                   THEN /\ pc' = "encoded"
                        /\ UNCHANGED <<stage, pvars>>
                   ELSE StartStage(Ok(WriteTasks(total_frames, run_configuration)), run_configuration,
                                   "write_pool", "write")
                /\ UNCHANGED <<result, raised>>
    /\ UNCHANGED <<payload, run_configuration, pipeline_serializer, mock, header_frames,
                   file, parsed, runs, first, caller, tamper, key_press, hvars, xvars>>

WriteJoin ==
    /\ JoinStage("write_pool", "write")
    /\ UNCHANGED <<payload, run_configuration, pipeline_serializer, mock, header_frames,
                   frames, file, parsed, result, raised, runs, first, caller, tamper, key_press, hvars, xvars>>

\* create_video_from_frames has written the resized frames; the chain it was
\* handed is exhausted when encode returns it.  When a resize raised, the
\* VideoWriter had opened the file and nothing was written to it.
EncodeReturn ==
    /\ pc = "write"
    /\ IF stage.exc # "None"
       THEN /\ RaiseOut(stage.exc)
            /\ file' = Some(<<>>)
            /\ UNCHANGED frames
       ELSE /\ file' = Some(stage.val)
            /\ frames' = <<>>
            /\ pc' = "encoded"
            /\ UNCHANGED <<result, raised>>
    /\ UNCHANGED <<payload, run_configuration, pipeline_serializer, mock, header_frames,
                   stage, parsed, runs, first, caller, tamper, key_press, hvars, xvars, pvars>>

\* A faulty variant: the exhausted stream's StopIteration is not translated.
next_frame_unguarded(stream) ==
    IF stream = <<>> THEN Raise("StopIteration") ELSE Ok(Head(stream))

\* decode, base.py 215-221: no frames, or next(frames) on an exhausted stream,
\* is a ValueError.
next_frame(stream) ==
    IF stream = <<>> THEN Raise("ValueError") ELSE Ok(Head(stream))

\* A faulty variant: the payload is decoded with the configuration the caller supplied.
DecodingConfigurationSupplied(supplied, recovered) == supplied

\* decode, base.py 225: the configuration recovered from the header replaces
\* the one the caller supplied.
DecodingConfiguration(supplied, recovered) == recovered

\* A faulty variant: the frames the caller passed are decoded, file path or not.
FramesToDecodePassed(file_path_given, passed, container, configuration) == {passed}

\* decode, base.py 213-214: with a file path, the frames are those
\* video_handler.read returns, whatever frames the caller passed; without one,
\* the frames the caller passed.  run gives the file path unless mock.
FramesToDecode(file_path_given, passed, container, configuration) ==
    IF file_path_given THEN create_frames_from_video(container, configuration) ELSE {passed}

\* A faulty variant: the header frame is detected with the configuration the caller supplied.
HeaderDecodingConfigurationSupplied(supplied) == supplied

\* decode, base.py 223: the header frame is handed to the encoder with None for
\* its configuration.
HeaderDecodingConfiguration(supplied) == None

\* run, base.py 249-253, and decode, base.py 213-228: the frames are read back
\* unless mock (run reads them and decode reads them again, with the caller's
\* configuration; the second read is the one decoded); the first is decoded
\* on its own, with no configuration, which is the sequential branch of
\* decode_frames_to_data, and parsed; the rest are handed to the encoder with
\* the parsed configuration.
DecodeHeader ==
    /\ pc = "encoded"
    /\ \E stream \in FramesToDecode(~mock, frames, file, caller) :
        /\ key_press' = (~mock /\ stream # read(file))
        /\ IF next_frame(stream).exc # "None"
           THEN /\ DecodeFailed(next_frame(stream).exc)
                /\ UNCHANGED <<frames, parsed, stage, pvars>>
           ELSE LET header_frame == next_frame(stream).val
                    header_configuration == HeaderDecodingConfiguration(caller)
                    header_tasks == DecodeTasks(<<header_frame>>, header_configuration).val
                    detected == SequentialMap(header_tasks)
                    raw_header ==
                        IF detected.exc # "None" THEN Raise(detected.exc)
                        ELSE deserialize(pipeline_serializer, Concat(detected.val))
                    config ==
                        IF raw_header.exc # "None" THEN Raise(raw_header.exc)
                        ELSE deserialize_with_length_prefix(raw_header.val)
                IN  IF Parallel(header_configuration)
                    THEN /\ PoolOpen(header_tasks,
                                     SecondMap(StageArgs(header_tasks, header_configuration)),
                                     header_configuration.max_workers)
                         /\ pc' = "decode_header_pool"
                         /\ frames' = Tail(stream)
                         /\ UNCHANGED <<parsed, stage, result, raised>>
                    ELSE IF config.exc # "None"
                    THEN /\ DecodeFailed(config.exc)
                         /\ frames' = Tail(stream)
                         /\ UNCHANGED <<parsed, stage, pvars>>
                    ELSE /\ parsed' = Some(config.val)
                         /\ frames' = Tail(stream)
                         /\ LET used == DecodingConfiguration(caller, config.val)
                            IN  StartStage(DecodeTasks(Tail(stream), used), used,
                                           "decode_payload_pool", "decode_payload")
                         /\ UNCHANGED <<result, raised>>
    /\ UNCHANGED <<payload, run_configuration, pipeline_serializer, mock, header_frames,
                   file, runs, first, caller, tamper, hvars, xvars>>

DecodePayloadJoin ==
    /\ JoinStage("decode_payload_pool", "decode_payload")
    /\ UNCHANGED <<payload, run_configuration, pipeline_serializer, mock, header_frames,
                   frames, file, parsed, result, raised, runs, first, caller, tamper, key_press, hvars, xvars>>

\* decode, base.py 228-229, and run, base.py 254-271: the payload is
\* deserialized and validated, and run returns its Result.
RunReturn ==
    /\ pc = "decode_payload"
    /\ LET output ==
               IF stage.exc # "None" THEN Raise(stage.exc)
               ELSE deserialize(pipeline_serializer, Concat(stage.val))
       IN  IF output.exc # "None"
           THEN DecodeFailed(output.exc)
           ELSE IF ~validate_equals(payload, output.val)
                THEN Return(None, "PipelineValidationException")
                ELSE Return(Some(output.val), "None")
    /\ frames' = <<>>
    /\ UNCHANGED <<payload, run_configuration, pipeline_serializer, mock, header_frames,
                   file, stage, parsed, runs, first, caller, tamper, key_press, hvars, xvars, pvars>>

\* What the frame decoder returned or raised for the payload frames, None when
\* decode did not get as far as calling it.
PayloadDecoded == IF parsed # None THEN Some(stage) ELSE None

\* What the second run changes: enable_multiprocessing, mock, or the two
\* display flags.
Flips == {"enable_multiprocessing", "mock", "display"}

\* The configurations that differ from a configuration in the flipped part only.
Flipped(configuration, flip) ==
    CASE flip = "enable_multiprocessing" ->
             {[configuration EXCEPT !.enable_multiprocessing = ~@]}
      [] flip = "mock" -> {configuration}
      [] flip = "display" ->
             {[configuration EXCEPT !.verbose = v, !.show_decoding_window = w] :
                 v \in BOOLEAN, w \in BOOLEAN} \ {configuration}

\* The caller runs the pipeline again on the same payload and file path, with
\* one part of the call flipped.
RunAgain ==
    /\ pc \in {"done", "raised"}
    /\ runs = 1
    /\ \E flip \in Flips :
        /\ first' = Some([result |-> result, raised |-> raised, decoded |-> PayloadDecoded,
                          key_press |-> key_press, flipped |-> flip])
        /\ run_configuration' \in Flipped(run_configuration, flip)
        /\ mock' = IF flip = "mock" THEN ~mock ELSE mock
    /\ caller' = run_configuration'
    /\ runs' = 2
    /\ pc' = "run"
    /\ header_frames' = <<>>
    /\ frames' = <<>>
    /\ stage' = Ok(<<>>)
    /\ parsed' = None
    /\ result' = NoResult
    /\ raised' = "None"
    /\ key_press' = FALSE
    /\ UNCHANGED <<payload, pipeline_serializer, file, tamper, hvars, xvars, pvars>>

RPoolStart == pc \notin {"idle"} /\ PoolStart /\ UNCHANGED <<rvars, hvars, xvars>>

RPoolFinish == pc \notin {"idle"} /\ PoolFinish /\ UNCHANGED <<rvars, hvars, xvars>>

RPoolCollect == pc \notin {"idle"} /\ PoolCollect /\ UNCHANGED <<rvars, hvars, xvars>>

Next ==
    \/ EncodeHeader \/ EncodeHeaderJoin \/ EncodePayload \/ EncodePayloadJoin
    \/ EncodeWrite \/ WriteJoin \/ EncodeReturn
    \/ DecodeHeader \/ DecodePayloadJoin \/ RunReturn \/ RunAgain
    \/ RPoolStart \/ RPoolFinish \/ RPoolCollect

Spec == Init /\ [][Next]_vars

(***************************************************************************)
(* SpecChunk: encode on its own, without a file path, on payloads around   *)
(* the multiples of the symbol capacity, on the small payloads of Spec,    *)
(* and with a chunk_size of zero or below.                                 *)
(***************************************************************************)
\* Values of chunk_size that are not positive; the dataclass accepts any int.
NonPositiveChunkSizes == {0, -1, -8}

CapacityPayloads(level) ==
    {generate_random_bytes(k * to_max_bytes(level) + r, 42) :
        k \in 1..MaxChunks, r \in {0, 1}}

KInit ==
    /\ HIdle
    /\ XIdle
    /\ PoolIdle
    /\ pc = "run"
    /\ \/ \E level \in QRErrorCorrectionLevel, mp \in BOOLEAN, chunk \in {None, Some(3000)} :
            /\ run_configuration = Configuration(mp, 24, FALSE, FALSE, chunk, Some(2), level)
            /\ payload \in CapacityPayloads(level)
            /\ pipeline_serializer = "IdentitySerializer"
       \/ /\ run_configuration \in PipelineConfigurations
          /\ payload \in Payloads
          /\ pipeline_serializer \in Serializers
       \/ /\ \E mp \in BOOLEAN, chunk \in NonPositiveChunkSizes :
                 run_configuration = Configuration(mp, 24, FALSE, FALSE, Some(chunk), Some(2), "M")
          /\ payload \in {<<>>, HelloWorld}
          /\ pipeline_serializer \in Serializers
    /\ mock = TRUE
    /\ header_frames = <<>>
    /\ frames = <<>>
    /\ file = None
    /\ stage = Ok(<<>>)
    /\ parsed = None
    /\ result = NoResult
    /\ raised = "None"
    /\ runs = 1
    /\ first = None
    /\ caller = run_configuration
    /\ tamper = "none"
    /\ key_press = FALSE

KNext ==
    \/ EncodeHeader \/ EncodeHeaderJoin \/ EncodePayload \/ EncodePayloadJoin
    \/ EncodeWrite
    \/ RPoolStart \/ RPoolFinish \/ RPoolCollect

SpecChunk == KInit /\ [][KNext]_vars

\* The frame sequence encode produced: what it returned without a file path,
\* what it wrote to the container with one.
Produced == IF mock THEN frames ELSE read(file)

HeaderSerialized == serialize(pipeline_serializer, serialize_with_length_prefix(run_configuration))

(***************************************************************************)
(* SpecDecode: decode on a stream that is not the one run's encode left    *)
(* for it.  After encode, the caller of decode may supply another stream   *)
(* (in memory without a file path, in the container with one) and another  *)
(* configuration; decode, and run around it, then go on as in Spec.        *)
(***************************************************************************)
TamperKinds ==
    {"other_caller", "empty", "header_replaced", "header_blank", "header_garbage",
     "payload_blank", "payload_dropped"}

\* A header frame whose length prefix is right and whose blob is no pickle.
GarbageHeader(serializer) ==
    Render(serialize(serializer, IntToBytesBig(3) \o <<255, 255, 255>>))

\* The streams of a kind that can be made from a stream.
Tampered(stream, kind, serializer) ==
    CASE kind = "other_caller" -> {stream}
      [] kind = "empty" -> {<<>>}
      [] kind = "header_replaced" ->
             IF Len(stream) >= 2 THEN {[stream EXCEPT ![1] = stream[2]]} ELSE {}
      [] kind = "header_blank" ->
             IF Len(stream) >= 1 THEN {[stream EXCEPT ![1] = BlankFrame]} ELSE {}
      [] kind = "header_garbage" ->
             IF Len(stream) >= 1 THEN {[stream EXCEPT ![1] = GarbageHeader(serializer)]}
             ELSE {}
      [] kind = "payload_blank" ->
             {[stream EXCEPT ![i] = BlankFrame] : i \in 2..Len(stream)}
      [] kind = "payload_dropped" ->
             IF Len(stream) >= 3 THEN {SubSeq(stream, 1, Len(stream) - 1)} ELSE {}

\* The configurations a caller of decode may hold for a stream encoded with a
\* configuration: the same, one with the display flags flipped, and one that
\* differs in how the payload would be decoded.
Callers(configuration) ==
    {configuration,
     [configuration EXCEPT !.verbose = ~@, !.show_decoding_window = ~@],
     [configuration EXCEPT !.enable_multiprocessing = ~@, !.max_workers = Some(1)]}

DecodePayloads == {<<>>, HelloWorld, generate_random_bytes(LongPayload, 42)}

DecodeConfigurations ==
    {Configuration(mp, 24, show, verbose, chunk, Some(2), "M") :
        mp \in BOOLEAN, show \in BOOLEAN, verbose \in BOOLEAN, chunk \in {None, Some(30)}}

DInit ==
    /\ HIdle
    /\ XIdle
    /\ PoolIdle
    /\ pc = "run"
    /\ payload \in DecodePayloads
    /\ run_configuration \in DecodeConfigurations
    /\ pipeline_serializer \in Serializers
    /\ mock \in BOOLEAN
    /\ header_frames = <<>>
    /\ frames = <<>>
    /\ file = None
    /\ stage = Ok(<<>>)
    /\ parsed = None
    /\ result = NoResult
    /\ raised = "None"
    /\ runs = 1
    /\ first = None
    /\ caller = run_configuration
    /\ tamper = "none"
    /\ key_press = FALSE

\* Between encode and decode the stream and the caller's configuration are
\* replaced.
Supply ==
    /\ pc = "encoded"
    /\ tamper = "none"
    /\ \E kind \in TamperKinds :
        /\ tamper' = kind
        /\ \E stream \in Tampered(Produced, kind, pipeline_serializer) :
               IF mock
               THEN frames' = stream /\ UNCHANGED file
               ELSE file' = Some(stream) /\ UNCHANGED frames
        /\ caller' \in (IF kind = "other_caller" THEN Callers(run_configuration) \ {caller}
                         ELSE Callers(run_configuration))
    /\ UNCHANGED <<pc, payload, run_configuration, pipeline_serializer, mock, header_frames,
                   stage, parsed, result, raised, runs, first, key_press,
                   hvars, xvars, pvars>>

DNext ==
    \/ EncodeHeader \/ EncodeHeaderJoin \/ EncodePayload \/ EncodePayloadJoin
    \/ EncodeWrite \/ WriteJoin \/ EncodeReturn
    \/ Supply
    \/ DecodeHeader \/ DecodePayloadJoin \/ RunReturn
    \/ RPoolStart \/ RPoolFinish \/ RPoolCollect

SpecDecode == DInit /\ [][DNext]_vars

(***************************************************************************)
(* SpecEncode: encode called twice by the same caller, with the same       *)
(* payload, configuration and file path.  The workers of the two calls     *)
(* are scheduled independently.                                            *)
(***************************************************************************)
\* encode has returned or raised, and the caller calls it again; what the
\* first call produced is kept in first.
EncodeAgain ==
    /\ pc \in {"encoded", "raised"}
    /\ runs = 1
    /\ first' = Some([produced |-> Produced, raised |-> raised])
    /\ runs' = 2
    /\ pc' = "run"
    /\ header_frames' = <<>>
    /\ frames' = <<>>
    /\ stage' = Ok(<<>>)
    /\ raised' = "None"
    /\ UNCHANGED <<payload, run_configuration, pipeline_serializer, mock, file, parsed, result,
                   caller, tamper, key_press, hvars, xvars, pvars>>

ENext ==
    \/ EncodeHeader \/ EncodeHeaderJoin \/ EncodePayload \/ EncodePayloadJoin
    \/ EncodeWrite \/ WriteJoin \/ EncodeReturn
    \/ EncodeAgain
    \/ RPoolStart \/ RPoolFinish \/ RPoolCollect

SpecEncode == Init /\ [][ENext]_vars

(***************************************************************************)
(* Claims about the header codec, checked under SpecHeader.                *)
(***************************************************************************)

\* The length a header announces: its first four bytes read big-endian, most
\* significant byte first.
AnnouncedLength(data) ==
    IF data[1] > 0 \/ data[2] > 0 THEN 65536
    ELSE 256 * data[3] + data[4]

\* C3: header round trip.  For every configuration c, deserializing the bytes
\* serialize_with_length_prefix(c) returned gives c back without an error, and
\* from_bytes(to_bytes(c)) gives c back as well.
C3_HeaderRoundTrip ==
    (hPc = "parsed" /\ hIntact) =>
        /\ hResult.exc = "None"
        /\ hResult.val = hConfig
        /\ from_bytes(to_bytes(hConfig)).exc = "None"
        /\ from_bytes(to_bytes(hConfig)).val = hConfig

C3_Witness ==
    /\ hPc = "parsed" /\ hIntact
    /\ hResult.exc = "None"
    /\ hResult.val.chunk_size = Some(3000)
    /\ hResult.val.max_workers = None
    /\ hResult.val.error_correction = "H"

\* C4: header wire format.  The output of serialize_with_length_prefix(c) is
\* 4 + N bytes long, its first four bytes are N as a big-endian unsigned number
\* and the N bytes after them are to_bytes(c), for every N.
C4_HeaderWireFormat ==
    (hPc = "wire" /\ hIntact) =>
        LET N == Len(to_bytes(hConfig))
        IN  /\ Len(hData) = 4 + N
            /\ \A i \in 1..4 : hData[i] \in 0..255
            /\ 16777216 * hData[1] + 65536 * hData[2] + 256 * hData[3] + hData[4] = N
            /\ SubSeq(hData, 5, 4 + N) = to_bytes(hConfig)

C4_Witness ==
    /\ hPc = "wire" /\ hIntact
    /\ Len(hData) > 4
    /\ hData[4] = Len(hData) - 4
    /\ hConfig.chunk_size = None

\* C5: truncated header.  deserialize_with_length_prefix raises, returns no
\* configuration and does not parse the blob whenever its input is shorter than
\* 4 bytes or shorter than 4 + N, N being the length the first 4 bytes announce.
C5_TruncatedHeader ==
    (hPc = "parsed"
     /\ (Len(hData) < 4 \/ Len(hData) < 4 + AnnouncedLength(hData))) =>
        /\ hResult.exc = "ValueError"
        /\ hResult.val = <<>>
        /\ ~hResult.parsed

\* A header cut inside its blob: the prefix is whole and announces more bytes
\* than follow it.
C5_Witness ==
    /\ hPc = "parsed"
    /\ Len(hData) > 4
    /\ Len(hData) < 4 + AnnouncedLength(hData)
    /\ hResult.exc = "ValueError"

(***************************************************************************)
(* Claims about the process pool, checked under SpecPool.                  *)
(***************************************************************************)

\* C10: order-preserving parallel map.  Whatever order the workers complete in,
\* the i-th result emitted is the result of the i-th input task, and a call that
\* returns has emitted one result per task.
C10_OrderPreservingMap ==
    (xPc \in {"pool", "returned"}) =>
        /\ Len(pOut) <= Len(xArgs.tasks)
        /\ \A i \in 1..Len(pOut) : pOut[i] = execute_task(xArgs.tasks[i]).val
        /\ (xPc = "returned" /\ xResult.exc = "None") =>
               /\ Len(xResult.val) = Len(xArgs.tasks)
               /\ \A i \in 1..Len(xArgs.tasks) :
                      xResult.val[i] = execute_task(xArgs.tasks[i]).val

\* The second task completed before the first, and both results were emitted.
C10_Witness ==
    /\ xPc = "pool"
    /\ Len(xArgs.tasks) = 3
    /\ pStatus[1] = "collected" /\ pStatus[2] = "collected" /\ pStatus[3] = "running"
    /\ pOut = <<<<65>>, <<66, 67>>>>
    /\ xArgs.tasks[1].arg = Render(<<65>>)

(***************************************************************************)
(* Claims about run, checked under Spec.                                   *)
(***************************************************************************)
Returned == pc = "done"

Ended == pc \in {"done", "raised"}

\* C1 (round-trip): whenever run returns, for any payload and any
\* configuration with a positive or unset chunk_size and multiprocessing on or
\* off, the Result has no exception and its value equals the payload.
C1_RoundTrip ==
    Returned => result = [value |-> Some(payload), exception |-> "None"]

\* C2 (empty payload): encode of the empty payload yields exactly one frame, and
\* decode of the stream that holds only the header frame returns empty bytes
\* without an exception.
C2_EmptyPayload ==
    payload = <<>> =>
        /\ pc = "encoded" => Len(IF mock THEN frames ELSE read(file)) = 1
        /\ Returned /\ parsed # None =>
               result = [value |-> Some(<<>>), exception |-> "None"]

\* C9 (parallel equals serial): for a non-empty payload, when no key press
\* cuts a read short, the run with enable_multiprocessing flipped ends as the
\* first run did: the same Result or the same exception, and the same bytes
\* from the frame decoder, whatever the worker count and the schedule.
C9_ParallelEqualsSerial ==
    /\ runs = 2
    /\ Ended
    /\ payload # <<>>
    /\ first[1].flipped = "enable_multiprocessing"
    /\ ~key_press
    /\ ~first[1].key_press
    =>
        /\ first[1].result = result
        /\ first[1].raised = raised
        /\ first[1].decoded = PayloadDecoded

(***************************************************************************)
(* Claims about chunking, checked under SpecChunk.                         *)
(***************************************************************************)
CeilDiv(n, d) == (n + d - 1) \div d

\* The segment size of the claims: min(chunk_size if set, max_bytes[level]).
Seg == IF run_configuration.chunk_size = None
       THEN to_max_bytes(run_configuration.error_correction)
       ELSE Min(run_configuration.chunk_size[1],
                to_max_bytes(run_configuration.error_correction))

Serialized == serialize(pipeline_serializer, payload)

\* The payload encode has returned its frames.
PayloadEncoded == pc \in {"encode_payload", "encoded"} /\ stage.exc = "None"

\* The chunk each payload frame was rendered from.
Chunks == [i \in 1..Len(stage.val) |-> stage.val[i].symbols[1]]

\* C6 (chunk count): for a non-empty payload encode produces
\* ceil(len(serialize(b)) / seg) payload frames and one more frame in total;
\* 4 * max_bytes bytes give 4 payload frames and 4 * max_bytes + 1 give 5.
C6_ChunkCount ==
    PayloadEncoded /\ payload # <<>> =>
        /\ Len(stage.val) = CeilDiv(Len(Serialized), Seg)
        /\ pc = "encoded" => Len(frames) = CeilDiv(Len(Serialized), Seg) + 1
        /\ pipeline_serializer = "IdentitySerializer"
              /\ Seg = to_max_bytes(run_configuration.error_correction) =>
               /\ Len(payload) = 4 * Seg => Len(stage.val) = 4
               /\ Len(payload) = 4 * Seg + 1 => Len(stage.val) = 5

\* encode has returned header + 5 frames for 4 * max_bytes + 1 bytes.
C6_Witness ==
    /\ pc = "encoded"
    /\ Len(payload) = 4 * to_max_bytes(run_configuration.error_correction) + 1
    /\ Len(frames) = 6

\* C7 (chunk partition): the chunks are the contiguous slices data[0:seg],
\* data[seg:2*seg], ... in offset order; they concatenate to data, none is longer
\* than seg, only the last may be shorter, none is empty, and empty data has
\* no chunks.
C7_ChunkPartition ==
    PayloadEncoded =>
        /\ \A i \in 1..Len(Chunks) :
               /\ Chunks[i] = SubSeq(Serialized, (i - 1) * Seg + 1,
                                     Min(i * Seg, Len(Serialized)))
               /\ Len(Chunks[i]) <= Seg
               /\ Len(Chunks[i]) > 0
               /\ i < Len(Chunks) => Len(Chunks[i]) = Seg
        /\ Concat(Chunks) = Serialized
        /\ Serialized = <<>> => Len(Chunks) = 0

\* Several chunks, the last one shorter than the others.
C7_Witness ==
    /\ PayloadEncoded
    /\ Len(Chunks) >= 3
    /\ Len(Chunks[Len(Chunks)]) < Seg
    /\ Len(Chunks[1]) = Seg

\* C8 (capacity admission): with chunk_size above max_bytes[level] the segment
\* size is max_bytes[level], no chunk handed to the render function is longer
\* than the capacity, and the payload encode does not raise.
C8_CapacityAdmission ==
    /\ pc \in {"encode_payload", "encoded"}
    /\ run_configuration.chunk_size # None
    /\ run_configuration.chunk_size[1] > to_max_bytes(run_configuration.error_correction)
    =>
        /\ EffectiveMaxBytes(run_configuration) =
               to_max_bytes(run_configuration.error_correction)
        /\ stage.exc = "None"
        /\ \A i \in 1..Len(Chunks) :
               Len(Chunks[i]) <= to_max_bytes(run_configuration.error_correction)

\* A payload longer than the configured chunk size was encoded with that
\* chunk size above the capacity.
C8_Witness ==
    /\ pc = "encoded"
    /\ run_configuration.chunk_size = Some(3000)
    /\ Len(Serialized) > 3000
    /\ Len(Chunks) >= 2
    /\ Len(Chunks[1]) = to_max_bytes(run_configuration.error_correction)

(***************************************************************************)
(* Claims about the frame stream, checked under Spec.                      *)
(***************************************************************************)
\* C11 (header-first frame order): in the frame sequence encode produces,
\* frame 0 is the header frame carrying the length-prefixed configuration and
\* frames 1..n are the payload chunks in increasing chunk index; decode takes
\* its first frame as the header and hands every later frame to the payload
\* decoder, in order.
C11_HeaderFirst ==
    /\ pc = "encoded" =>
           /\ Len(Produced) >= 1
           /\ Produced[1].symbols = <<HeaderSerialized>>
           /\ Len(Produced) = 1 + CeilDiv(Len(Serialized), Seg)
           /\ \A i \in 1..(Len(Produced) - 1) :
                  Produced[i + 1].symbols =
                      <<SubSeq(Serialized, (i - 1) * Seg + 1, Min(i * Seg, Len(Serialized)))>>
    /\ pc \in {"decode_payload_pool", "decode_payload"} /\ ~key_press =>
           /\ parsed # None
           /\ header_frames[1].symbols = <<HeaderSerialized>>
           /\ Len(frames) = CeilDiv(Len(Serialized), Seg)
           /\ \A i \in 1..Len(frames) :
                  frames[i].symbols =
                      <<SubSeq(Serialized, (i - 1) * Seg + 1, Min(i * Seg, Len(Serialized)))>>
           /\ pc = "decode_payload_pool" =>
                  pTasks = [i \in 1..Len(frames) |-> DecodeTask(frames[i], parsed[1])]

\* The payload frames of a container with a header and two payload frames are
\* being decoded in the pool.
C11_Witness ==
    /\ pc = "decode_payload_pool"
    /\ ~mock
    /\ ~key_press
    /\ Len(read(file)) = 3
    /\ Len(frames) = 2
    /\ frames[1] # frames[2]

\* C12 (tee on write): the frame sequence encode returns when it is given a
\* file path is the full sequence it wrote to the container, header frame
\* first and every payload frame after it, as when the file path is omitted;
\* writing does not consume or shorten it.
C12_TeeOnWrite ==
    pc = "encoded" /\ ~mock =>
        /\ Len(frames) = Len(read(file))
        /\ Len(frames) = 1 + CeilDiv(Len(Serialized), Seg)
        /\ \A i \in 1..Len(frames) : frames[i].symbols = read(file)[i].symbols

(***************************************************************************)
(* Claims about decode, checked under SpecDecode.                          *)
(***************************************************************************)
\* C13 (configuration travels with the payload): the configuration the payload
\* frames are decoded with is the one recovered from the header frame, and it
\* equals the configuration encode was given, whatever configuration the
\* caller of decode supplies.
C13_ConfigurationTravels ==
    tamper \in {"none", "other_caller", "payload_blank", "payload_dropped"} =>
        /\ parsed # None => parsed = Some(run_configuration)
        /\ pc \in {"decode_payload_pool", "decode_payload"} => parsed # None
        /\ pc = "decode_payload_pool" =>
               /\ run_configuration.enable_multiprocessing
               /\ pWorkers = PoolSize(run_configuration.max_workers)
               /\ \A i \in 1..Len(pTasks) : pTasks[i].cfg = run_configuration
        /\ pc = "decode_payload" /\ ~run_configuration.enable_multiprocessing => PoolIdle

\* The payload frames are decoded in the pool under the encode configuration
\* while the caller of decode holds another configuration.
C13_Witness ==
    /\ pc = "decode_payload_pool"
    /\ tamper = "other_caller"
    /\ ~caller.enable_multiprocessing
    /\ parsed = Some(run_configuration)
    /\ Len(pTasks) = 2

\* What decode returns from the decoded payload frames.
Output == deserialize(pipeline_serializer, Concat(stage.val))

\* C15 (validation gate): run returns a value only if the decoded output equals
\* the payload; when the decoded output differs, run returns a Result whose
\* value is None and whose exception is the validation failure.
C15_ValidationGate ==
    Returned =>
        /\ result.value # None =>
               /\ result.exception = "None"
               /\ result.value = Some(payload)
        /\ parsed # None /\ stage.exc = "None" =>
               /\ Output.exc = "None" /\ Output.val # payload =>
                      result = [value |-> None, exception |-> "PipelineValidationException"]
               /\ Output.exc = "None" /\ Output.val = payload =>
                      result = [value |-> Some(payload), exception |-> "None"]

\* decode returned bytes that are not the payload, and run returned the
\* validation failure.
C15_Witness ==
    /\ Returned
    /\ parsed # None
    /\ stage.exc = "None"
    /\ Output.exc = "None"
    /\ Output.val # payload
    /\ result.exception = "PipelineValidationException"

\* C16 (empty input to decode): decode without a file path, on frames that are
\* absent or an empty stream, fails with ValueError and returns no bytes.
C16_EmptyInput ==
    mock /\ tamper = "empty" =>
        /\ pc \in {"encoded", "done"}
        /\ pc = "done" =>
               /\ result = [value |-> None, exception |-> "ValueError"]
               /\ parsed = None
               /\ PoolIdle

\* decode was called on no frames and no file path, and has failed.
C16_Witness ==
    /\ mock
    /\ tamper = "empty"
    /\ frames = <<>>
    /\ pc = "done"
    /\ result.exception = "ValueError"

C18_CorruptPayloadFrame ==
    tamper = "payload_blank" /\ ~key_press =>
        /\ pc = "decode_payload" => stage = Raise("ValueError")
        /\ Ended =>
               /\ raised = "None"
               /\ result = [value |-> None, exception |-> "ValueError"]

\* The second payload frame was the corrupt one, the first decoded, and run
\* has returned the failure.
C18_Witness ==
    /\ tamper = "payload_blank"
    /\ ~key_press
    /\ Returned
    /\ Len(Produced) = 3
    /\ Produced[2] # BlankFrame
    /\ Produced[3] = BlankFrame
    /\ result = [value |-> None, exception |-> "ValueError"]

(***************************************************************************)
(* Claims about run and its second run, checked under Spec.                *)
(***************************************************************************)
\* C14 (run reports every failure as a value): run returns a Result, with a
\* value or with an exception; no failure of a stage leaves run as a raised
\* exception.
C14_FailureAsValue ==
    /\ pc # "raised"
    /\ raised = "None"

\* C19 (losslessness propagation): for a non-empty payload, when no key press
\* cuts a read short, run with mock=true and run with mock=false, on the same
\* payload and configuration, both return and their Result values are equal.
C19_MockEqualsContainer ==
    /\ runs = 2
    /\ Ended
    /\ payload # <<>>
    /\ first[1].flipped = "mock"
    /\ ~key_press
    /\ ~first[1].key_press
    =>
        /\ first[1].raised = raised
        /\ first[1].result.value = result.value

\* C20 (observability toggles do not affect output): two runs that differ only
\* in verbose and show_decoding_window, and in the key presses while the
\* decoding window is shown, end alike and return the same decoded bytes.
C20_DisplayFlagsNoEffect ==
    runs = 2 /\ Ended /\ first[1].flipped = "display" =>
        /\ first[1].result = result
        /\ first[1].raised = raised

(***************************************************************************)
(* Claims about the scheduling of the pool, checked under SpecPool.        *)
(***************************************************************************)
\* The tasks handed to the executor whose result the caller has not collected.
Outstanding ==
    Count(pStatus, "queued") + Count(pStatus, "running") + Count(pStatus, "done")

\* C21 (bounded backpressure): while the pool is open, the tasks submitted and
\* not yet collected number at most 2 * workers, give or take one; the
\* producer of the tasks is not advanced beyond that.
C21_BoundedBackpressure ==
    pActive => Outstanding <= 2 * pWorkers + 1

(***************************************************************************)
(* Claims about two calls of encode, checked under SpecEncode.             *)
(***************************************************************************)
\* C22 (deterministic framing): for a fixed payload, configuration and worker
\* count, a second encode produces the frame sequence the first one produced,
\* the same length and the same frame at every index, or fails as the first
\* one failed, whatever the scheduling of the workers of either call.
C22_DeterministicFraming ==
    runs = 2 /\ pc \in {"encoded", "raised"} =>
        /\ raised = first[1].raised
        /\ Len(Produced) = Len(first[1].produced)
        /\ \A i \in 1..Len(Produced) : Produced[i] = first[1].produced[i]

\* Both calls encoded a header and two different payload frames in the pool.
C22_Witness ==
    /\ runs = 2
    /\ pc = "encoded"
    /\ run_configuration.enable_multiprocessing
    /\ PoolSize(run_configuration.max_workers) = 2
    /\ Len(Produced) = 3
    /\ Produced[2] # Produced[3]
    /\ Produced = first[1].produced

(***************************************************************************)
(* Claims about the course of one decode, checked under SpecDecode.        *)
(***************************************************************************)
\* The stages of run in the order the code goes through them.
StageOrder(stage_pc) ==
    CASE stage_pc = "run" -> 0
      [] stage_pc = "encode_header_pool" -> 1
      [] stage_pc = "encode_header" -> 2
      [] stage_pc = "encode_payload_pool" -> 3
      [] stage_pc = "encode_payload" -> 4
      [] stage_pc = "write_pool" -> 5
      [] stage_pc = "write" -> 6
      [] stage_pc = "encoded" -> 7
      [] stage_pc = "decode_header_pool" -> 8
      [] stage_pc = "decode_payload_pool" -> 9
      [] stage_pc = "decode_payload" -> 10
      [] stage_pc \in {"done", "raised"} -> 11

\* The steps of a future: it is started once, finishes once, its result is
\* taken once; one that was never started may be cancelled.
FutureSteps ==
    {<<"queued", "running">>, <<"running", "done">>, <<"done", "collected">>,
     <<"queued", "cancelled">>}

\* C23 (exactly-once, no retry): in one decode, sequential or parallel, verbose
\* or not, there is one detect call per payload frame, a call that was made is
\* never made again, also when it failed, and the job only moves forward
\* through its stages, or to its end, which it never leaves.
C23_ExactlyOnceNoRetry ==
    [][/\ StageOrder(pc') >= StageOrder(pc)
       /\ Ended => pc' = pc /\ result' = result /\ raised' = raised /\ PoolIdle'
       /\ pc' = "decode_payload_pool" =>
              /\ Len(pTasks') = Len(frames')
              /\ \A i \in 1..Len(pTasks') : pTasks'[i].arg = frames'[i]
       /\ pc = "decode_payload_pool" /\ pc' = "decode_payload_pool" =>
              /\ pTasks' = pTasks
              /\ \A i \in 1..Len(pStatus) :
                     pStatus'[i] = pStatus[i] \/ <<pStatus[i], pStatus'[i]>> \in FutureSteps
       /\ pc = "encoded" /\ pc' = "decode_payload" =>
              /\ PoolIdle'
              /\ frames' # <<>> =>
                     stage' = SequentialMap([i \in 1..Len(frames') |->
                                                DecodeTask(frames'[i], parsed'[1])])
      ]_vars

\* A verbose parallel decode: detection failed on the first payload frame,
\* and the second was cancelled before a worker took it.
C23_Witness ==
    /\ tamper = "payload_blank"
    /\ pc = "decode_payload_pool"
    /\ parsed[1].verbose
    /\ pExc = "ValueError"
    /\ pStatus = <<"collected", "cancelled">>

\* C24 (header before workers): decode detects and parses the header frame
\* without a worker pool, whatever configuration its caller passed, and a
\* worker is given a payload frame only after the header frame was parsed
\* into a configuration.
C24_HeaderBeforeWorkers ==
    /\ pc # "decode_header_pool"
    /\ pc = "encoded" => PoolIdle
    /\ StageOrder(pc) >= StageOrder("encoded") /\ pActive =>
           /\ pc = "decode_payload_pool"
           /\ parsed # None
           /\ header_frames # <<>> /\ tamper \in {"none", "other_caller"} =>
                  parsed[1] = deserialize_with_length_prefix(
                                  deserialize(pipeline_serializer,
                                              Concat(header_frames[1].symbols)).val).val
           /\ \A i \in 1..Len(pTasks) : pTasks[i].arg = frames[i]
    /\ parsed = None /\ Ended => PoolIdle

\* The caller asked for multiprocessing; the header was parsed without a pool
\* and a worker now runs a payload frame.
C24_Witness ==
    /\ pc = "decode_payload_pool"
    /\ caller.enable_multiprocessing
    /\ tamper = "other_caller"
    /\ parsed # None
    /\ Count(pStatus, "running") >= 1

(***************************************************************************)
(* Claims about the frames encode generates, checked under SpecChunk.      *)
(***************************************************************************)
\* encode has got past the count of its header frames.
HeaderAccepted ==
    pc \in {"encode_payload_pool", "encode_payload", "write_pool", "write", "encoded"}

FramesToWrite ==
    <<Render(HeaderSerialized)>>
    \o [i \in 1..CeilDiv(Len(Serialized), Seg) |->
           Render(SubSeq(Serialized, (i - 1) * Seg + 1, Min(i * Seg, Len(Serialized))))]

\* C26 (uniform frame size on write): in sequential and in parallel mode the
\* video handler writes every frame it is handed, in input order, with the
\* height and width of the first frame: a frame of other dimensions is
\* resized to them and a frame that has them is written unchanged.
C26_UniformFrameSize ==
    /\ pc = "write" => stage.exc = "None"
    /\ pc = "encoded" /\ ~mock =>
           /\ Len(read(file)) = Len(FramesToWrite)
           /\ \A i \in 1..Len(read(file)) :
                  /\ read(file)[i].shape = FramesToWrite[1].shape
                  /\ read(file)[i].symbols = FramesToWrite[i].symbols
                  /\ FramesToWrite[i].shape = FramesToWrite[1].shape =>
                         read(file)[i] = FramesToWrite[i]

\* C27 (container access follows the mock flag): with mock=false decode is
\* given the file path and decodes the frames video_handler.read returns for
\* it, not the frames in memory; with mock=true run calls neither
\* video_handler.write nor video_handler.read, and the container is left as it
\* was; in neither mode is the container file deleted.
C27_ContainerAccess ==
    [][/\ file # None => file' # None
       /\ mock /\ mock' => file' = file
       /\ mock' => pc' \notin {"write_pool", "write"}
       /\ mock' /\ runs' = runs => ~key_press'
       /\ pc = "encoded" /\ pc' # "encoded" /\ ~mock =>
              \E stream \in create_frames_from_video(file, caller) :
                  /\ key_press' = (stream # read(file))
                  /\ stream = <<>> =>
                         /\ pc' = "done"
                         /\ result' = [value |-> None, exception |-> "ValueError"]
                  /\ stream # <<>> =>
                         /\ frames' = Tail(stream)
                         /\ pc' \in {"decode_payload_pool", "decode_payload"} =>
                                parsed' = Some(deserialize_with_length_prefix(
                                               deserialize(pipeline_serializer,
                                                           Concat(stream[1].symbols)).val).val)
       /\ pc = "encoded" /\ pc' # "encoded" /\ mock /\ frames # <<>> =>
              frames' = Tail(frames)
      ]_vars

\* A run with mock=true has returned the payload beside the container an
\* earlier run with mock=false wrote, and the container still holds its frames.
C27_Witness ==
    /\ runs = 2
    /\ first[1].flipped = "mock"
    /\ mock
    /\ Returned
    /\ result.value = Some(payload)
    /\ file # None
    /\ Len(read(file)) >= 2

(***************************************************************************)
(* Claims about frame generation, checked under SpecChunk.                 *)
(***************************************************************************)
\* C28 (no silent frame loss): whenever generate_qr_images returns without
\* raising, for any chunk_size, zero and negative values included, the chunks
\* it rendered concatenate to the whole of the data it was given, the
\* serialized header or the serialized payload; and the frame sequence encode
\* returns carries every byte of the serialized payload.
C28_NoSilentFrameLoss ==
    /\ pc = "encode_header" /\ stage.exc = "None" => Concat(Chunks) = HeaderSerialized
    /\ pc = "encode_payload" /\ stage.exc = "None" => Concat(Chunks) = Serialized
    /\ pc = "encoded" =>
           Concat([i \in 1..(Len(frames) - 1) |-> frames[i + 1].symbols[1]]) = Serialized

(***************************************************************************)
(* Claims about the Result of run, checked under SpecDecode.               *)
(***************************************************************************)
\* C29 (Result well-formedness): in every Result run returns, exactly one of
\* value and exception is set, and is_valid is true exactly for the results
\* that carry the decoded bytes.
C29_ResultWellFormed ==
    Returned =>
        /\ (result.value # None) <=> (result.exception = "None")
        /\ is_valid(result) <=> result.value # None
        /\ is_valid(result) => parsed # None /\ result.value = Some(Output.val)
        /\ ~is_valid(result) =>
               result.exception \in {"ValueError", "PipelineValidationException"}

\* run has returned a valid Result with the decoded bytes, to a caller that
\* holds another configuration than the one in the header.
C29_Witness ==
    /\ Returned
    /\ tamper = "other_caller"
    /\ is_valid(result)
    /\ result.value = Some(HelloWorld)

(***************************************************************************)
(* Claims about a failing task in the pool, checked under SpecPool.        *)
(***************************************************************************)
\* The frames of the call on which detection fails.
Failing == {i \in 1..Len(xArgs.tasks) : execute_task(xArgs.tasks[i]).exc # "None"}

FirstFailing == CHOOSE i \in Failing : \A j \in Failing : i <= j

\* C30 (fail-fast is schedule independent): when detection fails on one or
\* more frames, the parallel call raises the error of the failing frame of
\* lowest index, which is the error the sequential loop raises, whatever
\* order the workers complete in; no result of that frame or a later one is
\* emitted, before or after the failure, and when the call has returned no
\* task is running or waiting to be run.
C30_FailFast ==
    xPc \in {"pool", "returned"} /\ Failing # {} =>
        /\ Len(pOut) < FirstFailing
        /\ pExc # "None" =>
               /\ pExc = execute_task(xArgs.tasks[FirstFailing]).exc
               /\ Len(pOut) = FirstFailing - 1
               /\ pStatus[FirstFailing] = "collected"
               /\ \A i \in 1..pCollect : pStatus[i] # "queued"
        /\ xPc = "returned" =>
               /\ xResult = SequentialMap(xArgs.tasks)
               /\ pExc # "None"
               /\ Count(pStatus, "running") = 0
               /\ Count(pStatus, "queued") = 0

\* Detection fails on the second and third of three frames; the third had
\* completed before the second's failure was raised, and the call has raised
\* the second's error.
C30_Witness ==
    /\ xPc = "returned"
    /\ Len(xArgs.tasks) = 3
    /\ Failing = {2, 3}
    /\ pStatus = <<"collected", "collected", "done">>
    /\ pOut = <<<<65>>>>
    /\ xResult = Raise("ValueError")

====
